---- MODULE Spec2Model ----
(***************************************************************************)
(* Wave Function Collapse demo (js/demos/WaveFunctionCollapse.js) driven   *)
(* by the demo framework (js/framework/DemoFramework.js).                   *)
(*                                                                         *)
(* Tiles are the twelve box-drawing characters of the catalog, written     *)
(* here by name:  sp=' '  v=U+2551  h=U+2550  dr=U+2554  dl=U+2557         *)
(* ur=U+255A  ul=U+255D  vr=U+2560  vl=U+2563  dh=U+2566  uh=U+2569        *)
(* x=U+256C.  JavaScript's null and undefined are the strings "null" and   *)
(* "undefined".                                                            *)
(***************************************************************************)
EXTENDS Integers, Sequences, FiniteSets, TLC

\* ------------------------------------------------------------------ bounds
\* Grid dimensions (the shipped canvas gives 40 x 30; the model is scaled).
Rows == 3
Cols == 3
\* Seeds the framework holds: -NegSeeds .. MaxSeed, and 42.
NegSeeds == 7
MaxSeed == 12
\* Seeds of the runs that call the solver's methods directly: 0..MaxApiSeed.
MaxApiSeed == 1
\* Largest seed of the two-instance runs.
MaxDetSeed == 2
\* Longest list of the other Conflict Sets a run is compared with.
MaxConflicts == 2

Seeds == ((0 - NegSeeds)..MaxSeed) \cup {42}

\* ------------------------------------------------------------- tile catalog
tilesMutNoBlank == <<"v", "h", "dr", "dl", "ur", "ul", "vr", "vl", "dh", "uh", "x">>

tiles == <<"sp", "v", "h", "dr", "dl", "ur", "ul", "vr", "vl", "dh", "uh", "x">>

TileSet == {tiles[i] : i \in 1..Len(tiles)}

Dirs == {"top", "right", "bottom", "left"}

hasTop(t) == t \in {"v", "dr", "dl", "vr", "vl", "dh", "x"}
hasRight(t) == t \in {"h", "dr", "ur", "vr", "dh", "uh", "x"}
hasBottom(t) == t \in {"v", "ur", "ul", "vr", "vl", "uh", "x"}
hasLeft(t) == t \in {"h", "dl", "ul", "vl", "dh", "uh", "x"}

\* Array helpers: t is an element of the array s; s[i] with a 0-based index,
\* undefined outside the array; the members of s as a set.
includes(s, t) == \E i \in 1..Len(s) : s[i] = t

at(s, i) == IF i >= 0 /\ i < Len(s) THEN s[i + 1] ELSE "undefined"

Members(s) == {s[i] : i \in 1..Len(s)}

\* --------------------------------------------------------- constraint table
\* One push of the double loop: constraints[t][d].push(u).
Push(t, d, u) == [t |-> t, d |-> d, u |-> u]

\* The pushes of the loop body for the ordered pair (tile1, tile2), in order.
buildPairMutOneWay(tile1, tile2) ==
    (IF hasBottom(tile1) = hasTop(tile2)
     THEN <<Push(tile1, "bottom", tile2)>>
     ELSE <<>>)
    \o (IF hasRight(tile1) = hasLeft(tile2)
        THEN <<Push(tile1, "right", tile2), Push(tile2, "left", tile1)>>
        ELSE <<>>)

buildPairMutBothWays(tile1, tile2) ==
    (IF hasBottom(tile1) = hasTop(tile2)
     THEN <<Push(tile1, "bottom", tile2), Push(tile2, "top", tile1)>>
     ELSE <<>>)
    \o (IF hasTop(tile1) = hasBottom(tile2)
        THEN <<Push(tile1, "top", tile2), Push(tile2, "bottom", tile1)>>
        ELSE <<>>)
    \o (IF hasRight(tile1) = hasLeft(tile2)
        THEN <<Push(tile1, "right", tile2), Push(tile2, "left", tile1)>>
        ELSE <<>>)

buildPair(tile1, tile2) ==
    (IF hasBottom(tile1) = hasTop(tile2)
     THEN <<Push(tile1, "bottom", tile2), Push(tile2, "top", tile1)>>
     ELSE <<>>)
    \o (IF hasRight(tile1) = hasLeft(tile2)
        THEN <<Push(tile1, "right", tile2), Push(tile2, "left", tile1)>>
        ELSE <<>>)

\* The pushes of the inner loop (tile2 = tiles[j], ...) for tile1 = tiles[i].
RECURSIVE buildInner(_, _)
buildInner(i, j) ==
    IF j > Len(tiles)
    THEN <<>>
    ELSE buildPair(tiles[i], tiles[j]) \o buildInner(i, j + 1)

\* The pushes of the outer loop (tile1 = tiles[i], ...).
RECURSIVE buildOuter(_)
buildOuter(i) ==
    IF i > Len(tiles)
    THEN <<>>
    ELSE buildInner(i, 1) \o buildOuter(i + 1)

\* The table: every list starts empty and receives its pushes in loop order.
buildConstraints ==
    LET pushes == buildOuter(1)
    IN  [t \in TileSet |->
          [d \in Dirs |->
            LET mine == SelectSeq(pushes, LAMBDA p : p.t = t /\ p.d = d)
            IN  [k \in 1..Len(mine) |-> mine[k].u]]]

\* ------------------------------------------------------------ SeededRandom
\* JavaScript's %: the result has the sign of the dividend.
jsRem(a, m) == IF a >= 0 THEN a % m ELSE 0 - ((0 - a) % m)

\* The generator's state after the first random() call on SeededRandom(key);
\* random() returns this state divided by 233280.
random(key) == jsRem(key * 9301 + 49297, 233280)

\* Math.floor(random() * n) for the first draw of SeededRandom(key).
drawIndex(key, n) ==
    LET s == random(key)
    IN  IF s >= 0
        THEN (s * n) \div 233280
        ELSE 0 - (((0 - s) * n + 233279) \div 233280)

\* The seeds handed to SeededRandom by getLowestEntropy and by collapseCell.
selectorKey(sd, stepCount) == sd + stepCount

collapseKey(sd, x, y, stepCount) == sd + x * 1000 + y * 100 + stepCount

\* ---------------------------------------------------------------- the grid
Ys == 0..(Rows - 1)
Xs == 0..(Cols - 1)

\* Row-major scan order: position p of the scan is the cell (p % Cols, p / Cols).
scanX(p) == p % Cols
scanY(p) == p \div Cols

freshCell == [possible |-> tiles, collapsed |-> FALSE, value |-> "null"]

\* The solver's fields after regenerate(seed): a record of grid, entropy,
\* collapsed (the Complete flag) and conflicts.
regenerateMutKeepFlag(w) ==
    [grid      |-> [y \in Ys |-> [x \in Xs |-> freshCell]],
     entropy   |-> [y \in Ys |-> [x \in Xs |-> Len(tiles)]],
     collapsed |-> w.collapsed,
     conflicts |-> <<>>]

regenerateMutReuseRow(w) ==
    [grid      |-> [y \in Ys |-> [x \in Xs |->
                      IF y = 0 /\ DOMAIN w.grid # {} THEN w.grid[y][x] ELSE freshCell]],
     entropy   |-> [y \in Ys |-> [x \in Xs |-> Len(tiles)]],
     collapsed |-> FALSE,
     conflicts |-> <<>>]

regenerate(w) ==
    [grid      |-> [y \in Ys |-> [x \in Xs |-> freshCell]],
     entropy   |-> [y \in Ys |-> [x \in Xs |-> Len(tiles)]],
     collapsed |-> FALSE,
     conflicts |-> <<>>]

getStepCount(g) ==
    Cardinality({c \in Xs \X Ys : g[c[2]][c[1]].collapsed})

RECURSIVE scanCandidatesMutKeepCollapsed(_, _, _, _)
scanCandidatesMutKeepCollapsed(g, p, min, candidates) ==
    IF p >= Rows * Cols
    THEN candidates
    ELSE LET x == scanX(p)
             y == scanY(p)
             cell == g[y][x]
             e == Len(cell.possible)
         IN  IF e = 0
             THEN scanCandidatesMutKeepCollapsed(g, p + 1, min, candidates)
             ELSE IF min = 0 \/ e < min
                  THEN scanCandidatesMutKeepCollapsed(g, p + 1, e,
                                                      <<[x |-> x, y |-> y]>>)
                  ELSE IF e = min
                       THEN scanCandidatesMutKeepCollapsed(
                                g, p + 1, min, Append(candidates, [x |-> x, y |-> y]))
                       ELSE scanCandidatesMutKeepCollapsed(g, p + 1, min, candidates)

\* The scan of getLowestEntropy from position p on, with the minimum and the
\* candidate list so far (min = 0 stands for Infinity: no candidate yet).
RECURSIVE scanCandidatesMutPrepend(_, _, _, _)
scanCandidatesMutPrepend(g, p, min, candidates) ==
    IF p >= Rows * Cols
    THEN candidates
    ELSE LET x == scanX(p)
             y == scanY(p)
             cell == g[y][x]
             e == Len(cell.possible)
         IN  IF cell.collapsed \/ e = 0
             THEN scanCandidatesMutPrepend(g, p + 1, min, candidates)
             ELSE IF min = 0 \/ e < min
                  THEN scanCandidatesMutPrepend(g, p + 1, e, <<[x |-> x, y |-> y]>>)
                  ELSE IF e = min
                       THEN scanCandidatesMutPrepend(g, p + 1, min,
                                                     <<[x |-> x, y |-> y]>> \o candidates)
                       ELSE scanCandidatesMutPrepend(g, p + 1, min, candidates)

RECURSIVE scanCandidates(_, _, _, _)
scanCandidates(g, p, min, candidates) ==
    IF p >= Rows * Cols
    THEN candidates
    ELSE LET x == scanX(p)
             y == scanY(p)
             cell == g[y][x]
             e == Len(cell.possible)
         IN  IF cell.collapsed \/ e = 0
             THEN scanCandidates(g, p + 1, min, candidates)
             ELSE IF min = 0 \/ e < min
                  THEN scanCandidates(g, p + 1, e, <<[x |-> x, y |-> y]>>)
                  ELSE IF e = min
                       THEN scanCandidates(g, p + 1, min,
                                           Append(candidates, [x |-> x, y |-> y]))
                       ELSE scanCandidates(g, p + 1, min, candidates)

\* The result of getLowestEntropy: kind "cell" with a coordinate, "null", or
\* "undefined" when the drawn index is outside the candidate list.
NoCell(kind) == [kind |-> kind, x |-> 0, y |-> 0]

getLowestEntropy(g, sd) ==
    LET candidates == scanCandidates(g, 0, 0, <<>>)
        i == drawIndex(sd + getStepCount(g), Len(candidates))
    IN  IF Len(candidates) = 0
        THEN NoCell("null")
        ELSE IF i >= 0 /\ i < Len(candidates)
             THEN [kind |-> "cell", x |-> candidates[i + 1].x, y |-> candidates[i + 1].y]
             ELSE NoCell("undefined")


\* ------------------------------------------------------------------- state
VARIABLES
    seed,         \* framework.seed
    isPaused,     \* framework.isPaused
    constraints,  \* this.constraints, built once by the constructor
    grid,         \* this.grid[y][x]: possible, collapsed, value
    entropy,      \* this.entropy[y][x]
    collapsed,    \* this.collapsed: the Complete flag
    conflicts,    \* this.conflicts: array of conflict keys
    scheduled,    \* a requestAnimationFrame(animate) callback is pending
    calls,        \* collapseStep calls since the last regenerate
    last,         \* what the last callback did (see Idle)
    frames,       \* collapseStep calls made by animation frames, of calls
    twin          \* a second instance: its seed, solver record and calls

vars == <<seed, isPaused, constraints, grid, entropy, collapsed, conflicts,
          scheduled, calls, last, frames, twin>>

\* The solver object as a record, and back.
This == [grid |-> grid, entropy |-> entropy, collapsed |-> collapsed,
         conflicts |-> conflicts]

\* ------------------------------------------------------------ collapseCell
\* Returns ok (the method's return value) and the solver after the call.
collapseCellMutKeepDomain(w, x, y, sd) ==
    LET cell == w.grid[y][x]
        stepCount == getStepCount(w.grid)
        choice == at(cell.possible,
                     drawIndex(sd + x * 1000 + y * 100 + stepCount,
                               Len(cell.possible)))
    IN  IF cell.collapsed \/ Len(cell.possible) = 0
        THEN [ok |-> FALSE, w |-> w]
        ELSE [ok |-> TRUE,
              w  |-> [w EXCEPT !.grid[y][x] = [possible  |-> cell.possible,
                                               collapsed |-> TRUE,
                                               value     |-> choice],
                               !.entropy[y][x] = 0]]

collapseCellMutNoFlag(w, x, y, sd) ==
    LET cell == w.grid[y][x]
        stepCount == getStepCount(w.grid)
        choice == at(cell.possible,
                     drawIndex(sd + x * 1000 + y * 100 + stepCount,
                               Len(cell.possible)))
    IN  IF cell.collapsed \/ Len(cell.possible) = 0
        THEN [ok |-> FALSE, w |-> w]
        ELSE [ok |-> TRUE,
              w  |-> [w EXCEPT !.grid[y][x] = [possible  |-> <<choice>>,
                                               collapsed |-> FALSE,
                                               value     |-> "null"],
                               !.entropy[y][x] = 0]]

collapseCellMutNoGuard(w, x, y, sd) ==
    LET cell == w.grid[y][x]
        stepCount == getStepCount(w.grid)
        choice == at(cell.possible,
                     drawIndex(sd + x * 1000 + y * 100 + stepCount,
                               Len(cell.possible)))
    IN  IF Len(cell.possible) = 0
        THEN [ok |-> FALSE, w |-> w]
        ELSE [ok |-> TRUE,
              w  |-> [w EXCEPT !.grid[y][x] = [possible  |-> <<choice>>,
                                               collapsed |-> TRUE,
                                               value     |-> choice],
                               !.entropy[y][x] = 0]]

collapseCellMutKeepEntropy(w, x, y, sd) ==
    LET cell == w.grid[y][x]
        stepCount == getStepCount(w.grid)
        choice == at(cell.possible,
                     drawIndex(sd + x * 1000 + y * 100 + stepCount,
                               Len(cell.possible)))
    IN  IF cell.collapsed \/ Len(cell.possible) = 0
        THEN [ok |-> FALSE, w |-> w]
        ELSE [ok |-> TRUE,
              w  |-> [w EXCEPT !.grid[y][x] = [possible  |-> <<choice>>,
                                               collapsed |-> TRUE,
                                               value     |-> choice]]]

collapseCell(w, x, y, sd) ==
    LET cell == w.grid[y][x]
        stepCount == getStepCount(w.grid)
        choice == at(cell.possible,
                     drawIndex(sd + x * 1000 + y * 100 + stepCount,
                               Len(cell.possible)))
    IN  IF cell.collapsed \/ Len(cell.possible) = 0
        THEN [ok |-> FALSE, w |-> w]
        ELSE [ok |-> TRUE,
              w  |-> [w EXCEPT !.grid[y][x] = [possible  |-> <<choice>>,
                                               collapsed |-> TRUE,
                                               value     |-> choice],
                               !.entropy[y][x] = 0]]

\* --------------------------------------------------------------- propagate
conflictKey(x, y) == <<x, y>>

indexOf(s, k) ==
    IF includes(s, k)
    THEN (CHOOSE i \in 1..Len(s) : s[i] = k /\ \A j \in 1..(i - 1) : s[j] # k) - 1
    ELSE 0 - 1

\* s.splice(i, 1) for a 0-based index i inside s.
splice1(s, i) == SubSeq(s, 1, i) \o SubSeq(s, i + 2, Len(s))

neighborsMutSwapDirs(x, y) ==
    << [x |-> x,     y |-> y - 1, dir |-> "bottom", opposite |-> "top"],
       [x |-> x + 1, y |-> y,     dir |-> "right",  opposite |-> "left"],
       [x |-> x,     y |-> y + 1, dir |-> "top",    opposite |-> "bottom"],
       [x |-> x - 1, y |-> y,     dir |-> "left",   opposite |-> "right"] >>

neighborsMutFar(x, y) ==
    << [x |-> x,     y |-> y - 2, dir |-> "top",    opposite |-> "bottom"],
       [x |-> x + 1, y |-> y,     dir |-> "right",  opposite |-> "left"],
       [x |-> x,     y |-> y + 1, dir |-> "bottom", opposite |-> "top"],
       [x |-> x - 1, y |-> y,     dir |-> "left",   opposite |-> "right"] >>

neighborsMutNoLeft(x, y) ==
    << [x |-> x,     y |-> y - 1, dir |-> "top",    opposite |-> "bottom"],
       [x |-> x + 1, y |-> y,     dir |-> "right",  opposite |-> "left"],
       [x |-> x,     y |-> y + 1, dir |-> "bottom", opposite |-> "top"],
       [x |-> 0 - 1, y |-> y,     dir |-> "left",   opposite |-> "right"] >>

neighbors(x, y) ==
    << [x |-> x,     y |-> y - 1, dir |-> "top",    opposite |-> "bottom"],
       [x |-> x + 1, y |-> y,     dir |-> "right",  opposite |-> "left"],
       [x |-> x,     y |-> y + 1, dir |-> "bottom", opposite |-> "top"],
       [x |-> x - 1, y |-> y,     dir |-> "left",   opposite |-> "right"] >>

inGrid(n) == ~(n.x < 0 \/ n.x >= Cols \/ n.y < 0 \/ n.y >= Rows)

\* The contradiction branch: mark the neighbour in the Conflict Set (once) and
\* reset its domain to the full catalog.
markContradictionMutLeaveEmpty(w, neighbor) ==
    [w EXCEPT !.conflicts = IF includes(@, conflictKey(neighbor.x, neighbor.y))
                            THEN @
                            ELSE Append(@, conflictKey(neighbor.x, neighbor.y))]

markContradictionMutNoRecord(w, neighbor) ==
    [w EXCEPT !.grid[neighbor.y][neighbor.x].possible = tiles,
              !.entropy[neighbor.y][neighbor.x] = Len(tiles)]

markContradictionMutResetAll(w, neighbor) ==
    [w EXCEPT !.grid = [y \in Ys |-> [x \in Xs |->
                          IF w.grid[y][x].collapsed
                          THEN w.grid[y][x]
                          ELSE [w.grid[y][x] EXCEPT !.possible = tiles]]],
              !.entropy[neighbor.y][neighbor.x] = Len(tiles),
              !.conflicts = IF includes(@, conflictKey(neighbor.x, neighbor.y))
                            THEN @
                            ELSE Append(@, conflictKey(neighbor.x, neighbor.y))]

markContradiction(w, neighbor) ==
    [w EXCEPT !.grid[neighbor.y][neighbor.x].possible = tiles,
              !.entropy[neighbor.y][neighbor.x] = Len(tiles),
              !.conflicts = IF includes(@, conflictKey(neighbor.x, neighbor.y))
                            THEN @
                            ELSE Append(@, conflictKey(neighbor.x, neighbor.y))]

clearConflictMutKeep(w, neighbor) == w

clearConflictMutCollapseSingle(w, neighbor) ==
    LET index == indexOf(w.conflicts, conflictKey(neighbor.x, neighbor.y))
        nCell == w.grid[neighbor.y][neighbor.x]
        w1 == IF Len(nCell.possible) = 1
              THEN [w EXCEPT !.grid[neighbor.y][neighbor.x].collapsed = TRUE,
                             !.grid[neighbor.y][neighbor.x].value = nCell.possible[1]]
              ELSE w
    IN  [w1 EXCEPT !.conflicts = IF index > 0 - 1 THEN splice1(@, index) ELSE @]

\* The other branch: the neighbour is no conflict (any more).
clearConflict(w, neighbor) ==
    LET index == indexOf(w.conflicts, conflictKey(neighbor.x, neighbor.y))
    IN  [w EXCEPT !.conflicts = IF index > 0 - 1 THEN splice1(@, index) ELSE @]

visitNeighborMutNoSkip(v, tile, neighbor) ==
    IF v.threw \/ ~inGrid(neighbor)
    THEN v
    ELSE LET nCell == v.w.grid[neighbor.y][neighbor.x]
         IN  IF FALSE
             THEN v
             ELSE IF tile \notin TileSet
                  THEN [v EXCEPT !.threw = TRUE]
                  ELSE LET allowed == constraints[tile][neighbor.dir]
                           before == Len(nCell.possible)
                           filtered == SelectSeq(nCell.possible,
                                                 LAMBDA t : includes(allowed, t))
                           after == Len(filtered)
                           pos == [x |-> neighbor.x, y |-> neighbor.y]
                           w1 == [v.w EXCEPT
                                    !.grid[neighbor.y][neighbor.x].possible = filtered,
                                    !.entropy[neighbor.y][neighbor.x] =
                                        IF after < before THEN after ELSE @]
                           changed == IF after < before
                                      THEN Append(v.changed, pos)
                                      ELSE v.changed
                       IN  IF after = 0
                           THEN [w |-> markContradiction(w1, neighbor),
                                 changed |-> changed,
                                 emptied |-> Append(v.emptied, pos),
                                 threw |-> FALSE]
                           ELSE [w |-> clearConflict(w1, neighbor),
                                 changed |-> changed,
                                 emptied |-> v.emptied,
                                 threw |-> FALSE]

\* One iteration of the neighbour loop. v carries the solver w, the changed
\* list, the list of neighbours whose domain was emptied (and reset), and threw:
\* a TypeError ended the call (this.constraints[tile] is undefined when tile is
\* no catalog tile).
visitNeighbor(v, tile, neighbor) ==
    IF v.threw \/ ~inGrid(neighbor)
    THEN v
    ELSE LET nCell == v.w.grid[neighbor.y][neighbor.x]
         IN  IF nCell.collapsed
             THEN v
             ELSE IF tile \notin TileSet
                  THEN [v EXCEPT !.threw = TRUE]
                  ELSE LET allowed == constraints[tile][neighbor.dir]
                           before == Len(nCell.possible)
                           filtered == SelectSeq(nCell.possible,
                                                 LAMBDA t : includes(allowed, t))
                           after == Len(filtered)
                           pos == [x |-> neighbor.x, y |-> neighbor.y]
                           w1 == [v.w EXCEPT
                                    !.grid[neighbor.y][neighbor.x].possible = filtered,
                                    !.entropy[neighbor.y][neighbor.x] =
                                        IF after < before THEN after ELSE @]
                           changed == IF after < before
                                      THEN Append(v.changed, pos)
                                      ELSE v.changed
                       IN  IF after = 0
                           THEN [w |-> markContradiction(w1, neighbor),
                                 changed |-> changed,
                                 emptied |-> Append(v.emptied, pos),
                                 threw |-> FALSE]
                           ELSE [w |-> clearConflict(w1, neighbor),
                                 changed |-> changed,
                                 emptied |-> v.emptied,
                                 threw |-> FALSE]

\* The neighbour loop of propagate(x, y), for a collapsed cell (x, y).
propagateVisit(w, x, y) ==
    LET tile == w.grid[y][x].value
        ns == neighbors(x, y)
        v0 == [w |-> w, changed |-> <<>>, emptied |-> <<>>, threw |-> FALSE]
    IN  visitNeighbor(visitNeighbor(visitNeighbor(visitNeighbor(v0, tile, ns[1]),
                                                  tile, ns[2]), tile, ns[3]),
                      tile, ns[4])

\* propagate(x, y) with its recursive calls on the changed list: the result
\* carries the outermost call's changed and emptied lists, and threw.
RECURSIVE propagate(_, _, _)
RECURSIVE propagateChanges(_, _)
propagateChanges(v, i) ==
    IF v.threw \/ i > Len(v.changed)
    THEN v
    ELSE LET r == propagate(v.w, v.changed[i].x, v.changed[i].y)
         IN  propagateChanges([v EXCEPT !.w = r.w, !.threw = r.threw], i + 1)

propagate(w, x, y) ==
    IF ~w.grid[y][x].collapsed
    THEN [w |-> w, changed |-> <<>>, emptied |-> <<>>, threw |-> FALSE]
    ELSE propagateChanges(propagateVisit(w, x, y), 1)

\* ------------------------------------------------------------ collapseStep
\* What a call leaves behind for observation: the operation, the cell it was
\* about (the selector's result), collapseCell's return value, fresh (propagate
\* ran from a cell collapsed by the call just before it), propagate's changed
\* and emptied lists, the conflict keys it removed, and whether the call ended
\* by an uncaught exception.
Idle(op) == [op |-> op, lowest |-> NoCell("none"), ok |-> FALSE, fresh |-> FALSE,
             changed |-> <<>>, emptied |-> <<>>, cleared |-> <<>>, threw |-> FALSE]

\* The conflict keys of before a call that the call removed.
clearedKeys(before, after) == SelectSeq(before, LAMBDA k : ~includes(after, k))

collapseStepMutConflictKey(w, sd) ==
    LET lowest == getLowestEntropy(w.grid, sd + Len(w.conflicts))
    IN  IF lowest.kind # "cell"
        THEN [w |-> [w EXCEPT !.collapsed = TRUE],
              info |-> [Idle("collapseStep") EXCEPT !.lowest = lowest]]
        ELSE LET c == collapseCell(w, lowest.x, lowest.y, sd)
                 p == propagate(c.w, lowest.x, lowest.y)
             IN  [w |-> p.w,
                  info |-> [op |-> "collapseStep", lowest |-> lowest, ok |-> c.ok,
                            fresh |-> c.ok, changed |-> p.changed,
                            emptied |-> p.emptied,
                            cleared |-> clearedKeys(w.conflicts, p.w.conflicts),
                            threw |-> p.threw]]

collapseStep(w, sd) ==
    LET lowest == getLowestEntropy(w.grid, sd)
    IN  IF lowest.kind # "cell"
        THEN [w |-> [w EXCEPT !.collapsed = TRUE],
              info |-> [Idle("collapseStep") EXCEPT !.lowest = lowest]]
        ELSE LET c == collapseCell(w, lowest.x, lowest.y, sd)
                 p == propagate(c.w, lowest.x, lowest.y)
             IN  [w |-> p.w,
                  info |-> [op |-> "collapseStep", lowest |-> lowest, ok |-> c.ok,
                            fresh |-> c.ok, changed |-> p.changed,
                            emptied |-> p.emptied,
                            cleared |-> clearedKeys(w.conflicts, p.w.conflicts),
                            threw |-> p.threw]]

\* ----------------------------------------------------------------- actions
\* Assign the solver record w to the solver's fields.
Becomes(w) ==
    /\ grid' = w.grid
    /\ entropy' = w.entropy
    /\ collapsed' = w.collapsed
    /\ conflicts' = w.conflicts

\* The solver's fields as the constructor leaves them, before regenerate.
Unbuilt == [grid |-> <<>>, entropy |-> <<>>, collapsed |-> FALSE, conflicts |-> <<>>]

\* new DemoFramework(...); new WaveFunctionCollapse(framework): the framework
\* draws a seed in 0..999999, the solver builds the constraint table, registers
\* its callbacks, regenerates and requests the first animation frame.
Init ==
    /\ seed \in {s \in Seeds : s >= 0}
    /\ isPaused = FALSE
    /\ constraints = buildConstraints
    /\ LET w == regenerate(Unbuilt)
       IN  /\ grid = w.grid
           /\ entropy = w.entropy
           /\ collapsed = w.collapsed
           /\ conflicts = w.conflicts
    /\ scheduled = TRUE
    /\ calls = 0
    /\ last = Idle("init")
    /\ frames = 0
    /\ twin = [seed |-> 0, w |-> regenerate(Unbuilt), calls |-> 0]

setSeedMutNoRegenerate(s) ==
    /\ seed' = s
    /\ last' = Idle("setSeed")
    /\ UNCHANGED <<isPaused, constraints, grid, entropy, collapsed, conflicts,
                   scheduled, calls, frames, twin>>

\* framework.setSeed(s), from the seed input (parseInt(value) || 0) or the
\* Randomize button; the onSeedChange callback regenerates.
setSeed(s) ==
    /\ seed' = s
    /\ Becomes(regenerate(This))
    /\ calls' = 0
    /\ last' = Idle("setSeed")
    /\ frames' = 0
    /\ UNCHANGED <<isPaused, constraints, scheduled, twin>>

\* framework.reset(): un-pause, then the onReset callback regenerates.
reset ==
    /\ isPaused' = FALSE
    /\ Becomes(regenerate(This))
    /\ calls' = 0
    /\ last' = Idle("reset")
    /\ frames' = 0
    /\ UNCHANGED <<seed, constraints, scheduled, twin>>

togglePause ==
    /\ isPaused' = ~isPaused
    /\ last' = Idle("togglePause")
    /\ UNCHANGED <<seed, constraints, grid, entropy, collapsed, conflicts,
                   scheduled, calls, frames, twin>>

\* framework.step(): the onStep callback.
step ==
    /\ IF ~collapsed
       THEN LET r == collapseStep(This, seed)
            IN  /\ Becomes(r.w)
                /\ calls' = calls + 1
                /\ last' = r.info
       ELSE /\ UNCHANGED <<grid, entropy, collapsed, conflicts, calls>>
            /\ last' = Idle("onStep")
    /\ UNCHANGED <<seed, isPaused, constraints, scheduled, frames, twin>>

animateMutTwice ==
    /\ scheduled
    /\ \E elapsed \in BOOLEAN :
         IF elapsed /\ ~isPaused /\ ~collapsed
         THEN LET r == collapseStep(collapseStep(This, seed).w, seed)
              IN  /\ Becomes(r.w)
                  /\ calls' = calls + 1
                  /\ frames' = frames + 1
                  /\ last' = r.info
                  /\ scheduled' = (~r.info.threw /\ (~r.w.collapsed \/ ~isPaused))
         ELSE /\ UNCHANGED <<grid, entropy, collapsed, conflicts, calls, frames>>
              /\ last' = Idle("animate")
              /\ scheduled' = (~collapsed \/ ~isPaused)
    /\ UNCHANGED <<seed, isPaused, constraints, twin>>

\* One animation frame: elapsed says whether the collapse interval has passed.
\* An exception thrown by collapseStep leaves the callback before it requests
\* the next frame.
animate ==
    /\ scheduled
    /\ \E elapsed \in BOOLEAN :
         IF elapsed /\ ~isPaused /\ ~collapsed
         THEN LET r == collapseStep(This, seed)
              IN  /\ Becomes(r.w)
                  /\ calls' = calls + 1
                  /\ frames' = frames + 1
                  /\ last' = r.info
                  /\ scheduled' = (~r.info.threw /\ (~r.w.collapsed \/ ~isPaused))
         ELSE /\ UNCHANGED <<grid, entropy, collapsed, conflicts, calls, frames>>
              /\ last' = Idle("animate")
              /\ scheduled' = (~collapsed \/ ~isPaused)
    /\ UNCHANGED <<seed, isPaused, constraints, twin>>

Next ==
    \/ \E s \in Seeds : setSeed(s)
    \/ reset
    \/ togglePause
    \/ step
    \/ animate

Spec == Init /\ [][Next]_vars

\* ------------------------------------------------- the methods called directly
\* The solver's methods are public: a caller (a test of propagate, say) can
\* collapse and propagate at coordinates of its choice. ApiSpec lets it do so on
\* the four neighbours of the cell (1, 1), for the seeds 0..MaxApiSeed, before
\* the first collapseStep; the solver then runs on from the grid so prepared.
ApiCells == {[x |-> 1, y |-> 0], [x |-> 2, y |-> 1], [x |-> 1, y |-> 2],
             [x |-> 0, y |-> 1]}

ApiSeeds == 0..MaxApiSeed

ApiInit ==
    /\ Init
    /\ seed \in ApiSeeds

\* wfc.collapseCell(x, y)
callCollapseCell(x, y) ==
    /\ calls = 0
    /\ LET c == collapseCell(This, x, y, seed)
       IN  /\ Becomes(c.w)
           /\ last' = [Idle("collapseCell") EXCEPT
                         !.lowest = [kind |-> "cell", x |-> x, y |-> y],
                         !.ok = c.ok]
    /\ UNCHANGED <<seed, isPaused, constraints, scheduled, calls, frames, twin>>

\* wfc.propagate(x, y)
callPropagate(x, y) ==
    /\ calls = 0
    /\ LET p == propagate(This, x, y)
       IN  /\ Becomes(p.w)
           /\ last' = [op |-> "propagate",
                       lowest |-> [kind |-> "cell", x |-> x, y |-> y],
                       ok |-> FALSE,
                       fresh |-> /\ last.op = "collapseCell"
                                 /\ last.ok
                                 /\ last.lowest = [kind |-> "cell", x |-> x, y |-> y],
                       changed |-> p.changed,
                       emptied |-> p.emptied,
                       cleared |-> clearedKeys(conflicts, p.w.conflicts),
                       threw |-> p.threw]
    /\ UNCHANGED <<seed, isPaused, constraints, scheduled, calls, frames, twin>>

ApiNext ==
    \/ \E s \in ApiSeeds : setSeed(s)
    \/ step
    \/ \E c \in ApiCells : callCollapseCell(c.x, c.y)
    \/ \E c \in ApiCells : callPropagate(c.x, c.y)

ApiSpec == ApiInit /\ [][ApiNext]_vars

\* ------------------------------------------------- cells placed beforehand
\* A caller pre-collapses cells around (1, 1) and propagates each at once
\* (collapseCell then propagate, as collapseStep does after its selection); the
\* solver then runs on by collapseStep.
callPlace(x, y) ==
    /\ calls = 0
    /\ LET c == collapseCell(This, x, y, seed)
           p == propagate(c.w, x, y)
       IN  /\ Becomes(p.w)
           /\ last' = [op |-> "place",
                       lowest |-> [kind |-> "cell", x |-> x, y |-> y],
                       ok |-> c.ok, fresh |-> c.ok,
                       changed |-> p.changed,
                       emptied |-> p.emptied,
                       cleared |-> clearedKeys(conflicts, p.w.conflicts),
                       threw |-> p.threw]
    /\ UNCHANGED <<seed, isPaused, constraints, scheduled, calls, frames, twin>>

PlaceNext ==
    \/ \E s \in ApiSeeds : setSeed(s)
    \/ step
    \/ \E c \in ApiCells : callPlace(c.x, c.y)

PlaceSpec == ApiInit /\ [][PlaceNext]_vars

\* ------------------------------------------- collapseCell alone, any seed
\* collapseCell called directly on the first cells of the scan, for every seed
\* the framework can hold (the seed input's negative values included).
CallCells == {[x |-> 0, y |-> 0], [x |-> 1, y |-> 0], [x |-> 0, y |-> 1]}

CallNext ==
    \/ \E s \in Seeds : setSeed(s)
    \/ \E c \in CallCells : callCollapseCell(c.x, c.y)

CallSpec == Init /\ [][CallNext]_vars

\* ------------------------------------------------------ the canvas size
\* init() derives the grid size from the canvas size, which the caller of the
\* framework supplies (options.width, options.height). DimSpec constructs the
\* solver on canvases that give no column or no row, and on the canvases that
\* give Cols columns and Rows rows.
cellSize == 20

initCols(width) == width \div cellSize

initRows(height) == height \div cellSize

CanvasWidths == {0, cellSize - 1, Cols * cellSize, Cols * cellSize + cellSize - 1}

CanvasHeights == {0, cellSize - 1, Rows * cellSize, Rows * cellSize + cellSize - 1}

\* regenerate on a grid of rows x cols cells.
regenerateOn(rows, cols) ==
    [grid      |-> [y \in 0..(rows - 1) |-> [x \in 0..(cols - 1) |-> freshCell]],
     entropy   |-> [y \in 0..(rows - 1) |-> [x \in 0..(cols - 1) |-> Len(tiles)]],
     collapsed |-> FALSE,
     conflicts |-> <<>>]

\* this.rows and this.cols, read off the grid that regenerate built (without
\* rows the number of columns plays no part).
rowsOf(g) == Cardinality(DOMAIN g)

colsOf(g) == IF DOMAIN g = {} THEN 0 ELSE Cardinality(DOMAIN g[0])

\* collapseStep on a grid of rows x cols cells: without cells the scan loops of
\* getLowestEntropy run no iteration, the candidate list is empty and the
\* result is null; with cells the size is Rows x Cols here.
collapseStepOn(w, sd, rows, cols) ==
    IF rows * cols = 0
    THEN [w |-> [w EXCEPT !.collapsed = TRUE],
          info |-> [Idle("collapseStep") EXCEPT !.lowest = NoCell("null")]]
    ELSE collapseStep(w, sd)

DimInit ==
    /\ seed \in {s \in Seeds : s >= 0}
    /\ isPaused = FALSE
    /\ constraints = buildConstraints
    /\ \E width \in CanvasWidths, height \in CanvasHeights :
         LET w == regenerateOn(initRows(height), initCols(width))
         IN  /\ grid = w.grid
             /\ entropy = w.entropy
             /\ collapsed = w.collapsed
             /\ conflicts = w.conflicts
    /\ scheduled = TRUE
    /\ calls = 0
    /\ last = Idle("init")
    /\ frames = 0
    /\ twin = [seed |-> 0, w |-> regenerate(Unbuilt), calls |-> 0]

dimSetSeed(s) ==
    /\ seed' = s
    /\ Becomes(regenerateOn(rowsOf(grid), colsOf(grid)))
    /\ calls' = 0
    /\ last' = Idle("setSeed")
    /\ frames' = 0
    /\ UNCHANGED <<isPaused, constraints, scheduled, twin>>

dimStep ==
    /\ IF ~collapsed
       THEN LET r == collapseStepOn(This, seed, rowsOf(grid), colsOf(grid))
            IN  /\ Becomes(r.w)
                /\ calls' = calls + 1
                /\ last' = r.info
       ELSE /\ UNCHANGED <<grid, entropy, collapsed, conflicts, calls>>
            /\ last' = Idle("onStep")
    /\ UNCHANGED <<seed, isPaused, constraints, scheduled, frames, twin>>

DimNext ==
    \/ \E s \in Seeds : dimSetSeed(s)
    \/ dimStep

DimSpec == DimInit /\ [][DimNext]_vars

\* ------------------------------------------------------------ two instances
\* A second instance of the demo, constructed the same way, with its own
\* framework seed: DetSpec drives both by seed changes and steps.
DetSeeds == 0..MaxDetSeed

DetInit ==
    /\ Init
    /\ seed \in DetSeeds

\* setSeed(s) on the second instance.
twinSetSeed(s) ==
    /\ twin' = [seed |-> s, w |-> regenerate(twin.w), calls |-> 0]
    /\ UNCHANGED <<seed, isPaused, constraints, grid, entropy, collapsed,
                   conflicts, scheduled, calls, last, frames>>

\* step() on the second instance.
twinStep ==
    /\ twin' = IF ~twin.w.collapsed
               THEN [twin EXCEPT !.w = collapseStep(twin.w, twin.seed).w,
                                 !.calls = @ + 1]
               ELSE twin
    /\ UNCHANGED <<seed, isPaused, constraints, grid, entropy, collapsed,
                   conflicts, scheduled, calls, last, frames>>

DetNext ==
    \/ \E s \in DetSeeds : setSeed(s)
    \/ step
    \/ \E s \in DetSeeds : twinSetSeed(s)
    \/ twinStep

DetSpec == DetInit /\ [][DetNext]_vars

\* ------------------------------------------------------------ observations
Cells == {[x |-> x, y |-> y] : x \in Xs, y \in Ys}

cellAt(g, c) == g[c.y][c.x]

Uncollapsed(g) == {c \in Cells : ~cellAt(g, c).collapsed}

\* Cells the selector may return: uncollapsed, with a non-empty domain.
Live(g) == {c \in Uncollapsed(g) : Len(cellAt(g, c).possible) > 0}

\* ------------------------------------------------------------------ claims

\* C1: in every state reached by regenerate and collapseStep calls, a collapsed
\* cell's domain has exactly one member, equal to its value, and an uncollapsed
\* cell's value is null.
CellInvariant ==
    \A c \in Cells :
        LET cell == cellAt(grid, c)
        IN  /\ cell.collapsed =>
                 /\ Len(cell.possible) = 1
                 /\ cell.possible[1] = cell.value
            /\ ~cell.collapsed => cell.value = "null"

\* A collapseStep has collapsed a cell and narrowed a neighbour, and other cells
\* are still uncollapsed.
CellInvariantWitness ==
    /\ last.op = "collapseStep"
    /\ last.ok
    /\ Len(last.changed) > 0
    /\ Uncollapsed(grid) # {}

\* C2: from a freshly regenerated grid, every collapseStep call made so far has
\* collapsed one cell until the call that sets Complete, so Complete is reached
\* within Rows * Cols + 1 calls and no run keeps stepping.
TerminationBound ==
    /\ calls <= Rows * Cols + 1
    /\ ~collapsed => calls = getStepCount(grid)
    /\ calls = Rows * Cols + 1 => collapsed

\* The longest run: Rows * Cols collapses, and the call that sets Complete.
TerminationWitness ==
    /\ calls = Rows * Cols + 1
    /\ collapsed
    /\ Uncollapsed(grid) = {}

\* The direction a neighbour looks back in (the opposite field of the
\* neighbour list).
opposite(d) ==
    LET n == CHOOSE n \in Members(neighbors(0, 0)) : n.dir = d
    IN  n.opposite

\* The tiles some tile of domain dom allows in direction d.
Supported(dom, d) == {t \in TileSet : \E s \in Members(dom) : includes(constraints[s][d], t)}

\* C3: two instances with the same seed that have made the same number of
\* collapseStep calls since their last regeneration are in the same grid state:
\* every cell's domain, collapsed flag and value, the entropies, the Complete flag
\* and the Conflict Set are equal.
Determinism ==
    (twin.seed = seed /\ twin.calls = calls) => twin.w = This

\* Both instances have the same seed and have stepped the same number of times,
\* at least three, and are not yet complete.
DeterminismWitness ==
    /\ twin.seed = seed
    /\ twin.calls = calls
    /\ calls >= 3
    /\ ~collapsed
    /\ twin.w = This

\* C4: after propagate returns from a freshly collapsed origin, every neighbour
\* that was narrowed (and not reset) has itself been applied as a source: each of
\* its uncollapsed neighbours holds only tiles that some tile of its domain
\* allows.
PropagationFixpoint ==
    last.fresh =>
        \A i \in 1..Len(last.changed) :
            LET c == last.changed[i]
            IN  ~includes(last.emptied, c) =>
                  \A k \in 1..4 :
                      LET n == neighbors(c.x, c.y)[k]
                      IN  (inGrid(n) /\ ~grid[n.y][n.x].collapsed) =>
                            Members(grid[n.y][n.x].possible)
                                \subseteq Supported(grid[c.y][c.x].possible, n.dir)

\* C6: a collapseStep never raises the number of uncollapsed cells, lowers it by
\* exactly one when collapseCell succeeds, and leaves every collapsed cell
\* collapsed.
UncollapsedNeverGrows ==
    [][last'.op = "collapseStep" =>
         /\ Cardinality(Uncollapsed(grid')) <= Cardinality(Uncollapsed(grid))
         /\ last'.ok =>
              Cardinality(Uncollapsed(grid')) = Cardinality(Uncollapsed(grid)) - 1
         /\ Uncollapsed(grid') \subseteq Uncollapsed(grid)]_vars

\* A successful collapse whose propagation narrowed neighbours, with earlier
\* collapsed cells present.
UncollapsedWitness ==
    /\ last.op = "collapseStep"
    /\ last.ok
    /\ Len(last.changed) > 1
    /\ getStepCount(grid) > 2

\* C7: getLowestEntropy returns no cell exactly when no uncollapsed cell with a
\* non-empty domain exists, and otherwise an uncollapsed cell with a non-empty
\* domain of minimal size.
SelectorContract ==
    LET r == getLowestEntropy(grid, seed)
    IN  /\ r.kind # "cell" <=> Live(grid) = {}
        /\ r.kind = "cell" =>
             /\ [x |-> r.x, y |-> r.y] \in Live(grid)
             /\ \A c \in Live(grid) :
                    Len(grid[r.y][r.x].possible) <= Len(cellAt(grid, c).possible)

\* C8: whenever the Complete flag is set, every cell of the grid is collapsed.
CompleteMeansAllCollapsed ==
    collapsed => Uncollapsed(grid) = {}

\* C9: B is in constraints[A][d] iff A is in constraints[B][opposite(d)].
CompatibilitySymmetry ==
    \A A \in TileSet, B \in TileSet, d \in Dirs :
        includes(constraints[A][d], B) <=> includes(constraints[B][opposite(d)], A)

\* The table holds compatible and incompatible pairs.
CompatibilitySymmetryWitness ==
    /\ \E A \in TileSet, B \in TileSet, d \in Dirs : includes(constraints[A][d], B)
    /\ \E A \in TileSet, B \in TileSet, d \in Dirs : ~includes(constraints[A][d], B)

\* C10: every list of the table holds exactly the tiles whose facing edge
\* predicate agrees, each once.
NoDuplicates(s) == \A i \in 1..Len(s), j \in 1..Len(s) : s[i] = s[j] => i = j

ConstraintTableExact ==
    \A A \in TileSet :
        /\ Members(constraints[A]["bottom"]) = {B \in TileSet : hasBottom(A) = hasTop(B)}
        /\ Members(constraints[A]["right"]) = {B \in TileSet : hasRight(A) = hasLeft(B)}
        /\ Members(constraints[A]["top"]) = {B \in TileSet : hasBottom(B) = hasTop(A)}
        /\ Members(constraints[A]["left"]) = {B \in TileSet : hasRight(B) = hasLeft(A)}
        /\ \A d \in Dirs : NoDuplicates(constraints[A][d])

\* Lists of both sizes occur: 7 tiles connect on an edge and 5 do not.
ConstraintTableWitness ==
    /\ Len(constraints["sp"]["bottom"]) = 5
    /\ Len(constraints["x"]["bottom"]) = 7
    /\ Len(constraints["h"]["left"]) = 7
    /\ Len(constraints["v"]["left"]) = 5

\* C5: a neighbour whose domain propagate emptied is in the Conflict Set and
\* holds the full catalog when propagate returns, and no uncollapsed cell has an
\* empty domain.
ContradictionReset ==
    /\ \A i \in 1..Len(last.emptied) :
           LET c == last.emptied[i]
           IN  /\ includes(conflicts, conflictKey(c.x, c.y))
               /\ cellAt(grid, c).possible = tiles
               /\ ~cellAt(grid, c).collapsed
    /\ \A c \in Uncollapsed(grid) : Len(cellAt(grid, c).possible) > 0

\* propagate has just emptied and reset the domain of a cell.
ContradictionResetWitness ==
    /\ last.op \in {"propagate", "collapseStep"}
    /\ Len(last.emptied) > 0

\* The coordinate one step from c in direction d.
StepTo(c, d) ==
    [x |-> c.x + (IF d = "right" THEN 1 ELSE IF d = "left" THEN 0 - 1 ELSE 0),
     y |-> c.y + (IF d = "bottom" THEN 1 ELSE IF d = "top" THEN 0 - 1 ELSE 0)]

\* C11: when propagate has run from a collapsed origin holding tile t, every
\* in-grid neighbour n in direction d that was uncollapsed holds its domain of
\* before the call intersected with constraints[t][d] if that is non-empty, and
\* n is in the changed list exactly when the intersection is smaller than the
\* domain of before.
NeighbourFilter ==
    [][(/\ last'.op \in {"propagate", "collapseStep"}
        /\ last'.lowest.kind = "cell"
        /\ grid'[last'.lowest.y][last'.lowest.x].collapsed) =>
          LET o == [x |-> last'.lowest.x, y |-> last'.lowest.y]
              t == cellAt(grid', o).value
          IN  \A d \in Dirs :
                LET n == StepTo(o, d)
                IN  (n \in Cells /\ ~cellAt(grid, n).collapsed) =>
                      LET before == cellAt(grid, n).possible
                          meet == SelectSeq(before,
                                            LAMBDA u : u \in Members(constraints[t][d]))
                      IN  /\ meet # <<>> => cellAt(grid', n).possible = meet
                          /\ includes(last'.changed, n) <=> Len(meet) < Len(before)]_vars

\* A propagate narrowed one neighbour and left another uncollapsed neighbour
\* as it was.
NeighbourFilterWitness ==
    /\ last.op \in {"propagate", "collapseStep"}
    /\ last.lowest.kind = "cell"
    /\ Len(last.changed) > 0
    /\ \E d \in Dirs :
         LET n == StepTo([x |-> last.lowest.x, y |-> last.lowest.y], d)
         IN  /\ n \in Cells
             /\ ~cellAt(grid, n).collapsed
             /\ ~includes(last.changed, n)

\* C12: collapseCell on a cell that is uncollapsed with a non-empty domain
\* returns true, picks a member of the cell's domain of before the call, sets
\* the domain to exactly that tile, the value to it and the flag to collapsed,
\* and leaves every other cell as it was.
CollapseCellEffect ==
    [][(/\ last'.op = "collapseCell"
        /\ ~grid[last'.lowest.y][last'.lowest.x].collapsed
        /\ Len(grid[last'.lowest.y][last'.lowest.x].possible) > 0) =>
          LET o == [x |-> last'.lowest.x, y |-> last'.lowest.y]
              after == cellAt(grid', o)
          IN  /\ last'.ok
              /\ after.value \in Members(cellAt(grid, o).possible)
              /\ after.possible = <<after.value>>
              /\ after.collapsed
              /\ \A c \in Cells \ {o} : cellAt(grid', c) = cellAt(grid, c)]_vars

\* C13: collapseCell on a cell that is collapsed already, or whose domain is
\* empty, returns false and leaves the grid, the entropy mirror and the Conflict
\* Set as they were.
CollapseCellNoOp ==
    [][(/\ last'.op = "collapseCell"
        /\ \/ grid[last'.lowest.y][last'.lowest.x].collapsed
           \/ Len(grid[last'.lowest.y][last'.lowest.x].possible) = 0) =>
          /\ ~last'.ok
          /\ grid' = grid
          /\ entropy' = entropy
          /\ conflicts' = conflicts]_vars

\* collapseCell was called on a collapsed cell, with a conflict on record and
\* other cells narrowed.
CollapseCellNoOpWitness ==
    /\ last.op = "collapseCell"
    /\ ~last.ok
    /\ cellAt(grid, [x |-> last.lowest.x, y |-> last.lowest.y]).collapsed
    /\ Len(conflicts) > 0

\* C14: in a collapseStep that collapsed the cell (x, y) with k cells collapsed
\* before, the key of the collapse draw differs from the key of the selector
\* draw.
DistinctDrawKeys ==
    (last.op = "collapseStep" /\ last.ok) =>
        LET k == getStepCount(grid) - 1
        IN  collapseKey(seed, last.lowest.x, last.lowest.y, k) # selectorKey(seed, k)

\* The live cells of minimal domain size, and a set of cells listed in row-major
\* order (y ascending, then x ascending).
MinLive(g) ==
    {c \in Live(g) : \A d \in Live(g) :
                         Len(cellAt(g, c).possible) <= Len(cellAt(g, d).possible)}

RowMajor(S) ==
    [i \in 1..Cardinality(S) |->
        CHOOSE c \in S :
            Cardinality({d \in S : d.y * Cols + d.x < c.y * Cols + c.x}) = i - 1]

\* C15: the candidate list of getLowestEntropy is the list of all live cells of
\* minimal entropy in row-major order, and the result is its element at index
\* floor(r * n), with n its length and r = random(seed + collapsed count) /
\* 233280; an index outside the list yields no element (undefined).
SelectorDraw ==
    LET cand == RowMajor(MinLive(grid))
        n == Len(cand)
        s == random(selectorKey(seed, getStepCount(grid)))
        res == getLowestEntropy(grid, seed)
    IN  /\ scanCandidates(grid, 0, 0, <<>>) = cand
        /\ n > 0 =>
             /\ \A i \in 0..(n - 1) :
                    (i * 233280 <= s * n /\ s * n < (i + 1) * 233280) =>
                        res = [kind |-> "cell", x |-> cand[i + 1].x, y |-> cand[i + 1].y]
             /\ (s * n < 0 \/ s * n >= n * 233280) => res.kind = "undefined"

\* Some cells are collapsed, several narrowed cells tie for the minimum, and the
\* draw picks one that is not the first of the list.
SelectorDrawWitness ==
    LET cand == RowMajor(MinLive(grid))
        res == getLowestEntropy(grid, seed)
    IN  /\ getStepCount(grid) > 0
        /\ Len(cand) > 1
        /\ Uncollapsed(grid) \ MinLive(grid) # {}
        /\ res.kind = "cell"
        /\ [x |-> res.x, y |-> res.y] # cand[1]

\* C16: when propagate visits an uncollapsed neighbour that is in the Conflict
\* Set, the neighbour leaves the set if the visit narrows its domain to a
\* non-empty proper subset of the catalog, and stays in the set if the visit
\* empties its domain.
ConflictRemoval ==
    [][(/\ last'.op \in {"propagate", "collapseStep"}
        /\ last'.lowest.kind = "cell"
        /\ grid'[last'.lowest.y][last'.lowest.x].collapsed) =>
          LET o == [x |-> last'.lowest.x, y |-> last'.lowest.y]
              t == cellAt(grid', o).value
          IN  \A d \in Dirs :
                LET n == StepTo(o, d)
                IN  (/\ n \in Cells
                     /\ ~cellAt(grid, n).collapsed
                     /\ includes(conflicts, conflictKey(n.x, n.y))) =>
                      LET meet == SelectSeq(cellAt(grid, n).possible,
                                            LAMBDA u : u \in Members(constraints[t][d]))
                      IN  /\ (meet # <<>> /\ Members(meet) # TileSet) =>
                                ~includes(conflicts', conflictKey(n.x, n.y))
                          /\ meet = <<>> =>
                                includes(conflicts', conflictKey(n.x, n.y))]_vars

\* A propagate has removed a cell from the Conflict Set, and the cell now holds a
\* non-empty proper subset of the catalog.
ConflictRemovalWitness ==
    /\ last.op \in {"propagate", "collapseStep"}
    /\ \E i \in 1..Len(last.cleared) :
         LET c == [x |-> last.cleared[i][1], y |-> last.cleared[i][2]]
         IN  /\ ~cellAt(grid, c).collapsed
             /\ Len(cellAt(grid, c).possible) > 0
             /\ Members(cellAt(grid, c).possible) # TileSet

\* C17: across a collapseStep (or a propagate called directly) the domain of a
\* cell grows only by a contradiction reset, which leaves the cell with the full
\* catalog and in the Conflict Set; the domain of every cell that is not reset
\* in the step does not grow.
DomainMonotone ==
    [][last'.op \in {"collapseStep", "propagate"} =>
         \A c \in Cells :
             Len(cellAt(grid', c).possible) > Len(cellAt(grid, c).possible) =>
                 /\ includes(last'.emptied, c)
                 /\ cellAt(grid', c).possible = tiles
                 /\ includes(conflicts', conflictKey(c.x, c.y))]_vars

\* A propagate has reset a narrowed neighbour, so that its domain grew, while
\* another uncollapsed cell stays narrowed.
DomainMonotoneWitness ==
    /\ last.op \in {"collapseStep", "propagate"}
    /\ Len(last.emptied) > 0
    /\ \A i \in 1..Len(last.emptied) : cellAt(grid, last.emptied[i]).possible = tiles
    /\ \E c \in Uncollapsed(grid) : Len(cellAt(grid, c).possible) < Len(tiles)

\* The solver states: Ready (nothing collapsed), InProgress (cells collapsed,
\* the Complete flag unset) and Complete (the flag set).
Phase(g, flag) ==
    IF flag THEN "Complete"
    ELSE IF getStepCount(g) = 0 THEN "Ready" ELSE "InProgress"

\* C18: a collapseStep raises no error and moves the solver from Ready to
\* InProgress, within InProgress, or from InProgress to Complete; in Complete
\* every callback but a regenerate (seed change, reset) leaves the grid, the
\* Conflict Set and the Complete flag as they are.
SolverStates ==
    [][/\ last'.op = "collapseStep" =>
            /\ ~last'.threw
            /\ <<Phase(grid, collapsed), Phase(grid', collapsed')>> \in
                   {<<"Ready", "InProgress">>, <<"InProgress", "InProgress">>,
                    <<"InProgress", "Complete">>}
       /\ (collapsed /\ last'.op \notin {"setSeed", "reset"}) =>
            /\ grid' = grid
            /\ conflicts' = conflicts
            /\ collapsed']_vars

\* C19: a regenerate (by a seed change or a reset) leaves a Rows x Cols grid in
\* which every cell holds the full catalog, is uncollapsed and has value null,
\* with the Conflict Set empty and the Complete flag unset.
RegenerateYieldsReady ==
    [][last'.op \in {"setSeed", "reset"} =>
         /\ DOMAIN grid' = 0..(Rows - 1)
         /\ \A y \in DOMAIN grid' :
              /\ DOMAIN grid'[y] = 0..(Cols - 1)
              /\ \A x \in DOMAIN grid'[y] :
                   /\ grid'[y][x].possible = tiles
                   /\ ~grid'[y][x].collapsed
                   /\ grid'[y][x].value = "null"
         /\ conflicts' = <<>>
         /\ ~collapsed']_vars

\* A reset after a run that had reached Complete while paused (the animation
\* loop has stopped): the grid is fresh again.
RegenerateWitness ==
    /\ last.op = "reset"
    /\ ~scheduled
    /\ ~collapsed
    /\ getStepCount(grid) = 0

\* The solver after n consecutive collapseStep calls from w.
RECURSIVE runSteps(_, _, _)
runSteps(w, sd, n) ==
    IF n = 0 THEN w ELSE runSteps(collapseStep(w, sd).w, sd, n - 1)

\* C20: however the collapseStep calls made since the last regenerate were
\* divided between animation frames and manual steps, the grid and the Conflict
\* Set are those of the same number of consecutive collapseStep calls on the
\* regenerated grid, and the cell invariant holds between callbacks.
StepsInterchangeable ==
    LET w == runSteps(regenerate(Unbuilt), seed, calls)
    IN  /\ grid = w.grid
        /\ conflicts = w.conflicts
        /\ CellInvariant

\* A run in progress whose calls came partly from animation frames and partly
\* from manual steps.
StepsInterchangeableWitness ==
    /\ calls >= 3
    /\ frames > 0
    /\ frames < calls
    /\ ~collapsed

\* C21: construction fails for a canvas that gives no column or no row, so every
\* solver that exists has a grid with at least one row and one column.
ConstructionRejectsInvalid ==
    rowsOf(grid) > 0 /\ colsOf(grid) > 0

\* The orders in which the four neighbours can be visited, and the neighbour
\* loop of propagate(x, y) run in the order p.
Perms4 == {p \in [1..4 -> 1..4] : \A i \in 1..4, j \in 1..4 : p[i] = p[j] => i = j}

propagateVisitIn(w, x, y, p) ==
    LET tile == w.grid[y][x].value
        ns == neighbors(x, y)
        v0 == [w |-> w, changed |-> <<>>, emptied |-> <<>>, threw |-> FALSE]
    IN  visitNeighbor(visitNeighbor(visitNeighbor(visitNeighbor(v0, tile, ns[p[1]]),
                                                  tile, ns[p[2]]), tile, ns[p[3]]),
                      tile, ns[p[4]])

\* C22: for every propagate that runs from a collapsed origin, visiting the four
\* neighbours in any other order gives the same grid and the same Conflict Set
\* (as a set).
NeighbourOrderIrrelevant ==
    [][(/\ last'.op \in {"propagate", "place", "collapseStep"}
        /\ last'.lowest.kind = "cell"
        /\ grid'[last'.lowest.y][last'.lowest.x].collapsed) =>
          LET x == last'.lowest.x
              y == last'.lowest.y
              w0 == IF last'.op = "propagate"
                    THEN This
                    ELSE collapseCell(This, x, y, seed).w
          IN  \A p \in Perms4 :
                LET r == propagateVisitIn(w0, x, y, p).w
                IN  /\ r.grid = grid'
                    /\ Members(r.conflicts) = Members(conflicts')]_vars

\* A propagate that narrowed one neighbour and emptied (and reset) another, with
\* an older entry in the changed list than the emptied one.
NeighbourOrderWitness ==
    /\ last.op \in {"propagate", "place", "collapseStep"}
    /\ Len(last.emptied) > 0
    /\ Len(last.changed) > 1

\* Other contents the Conflict Set could have: nothing, any one cell, and the
\* first cells of the scan up to MaxConflicts.
AltConflicts ==
    {<<>>} \cup {<<conflictKey(c.x, c.y)>> : c \in Cells}
           \cup {[i \in 1..n |-> conflictKey(scanX(i - 1), scanY(i - 1))] :
                    n \in 1..MaxConflicts}

\* C23: a collapseStep from the same grid and seed with any other Conflict Set
\* gives the same domains, collapsed flags, values, entropies and Complete flag.
ConflictsInert ==
    \A K \in AltConflicts :
        LET a == collapseStep(This, seed).w
            b == collapseStep([This EXCEPT !.conflicts = K], seed).w
        IN  /\ a.grid = b.grid
            /\ a.entropy = b.entropy
            /\ a.collapsed = b.collapsed

\* A run in progress with a cell in the Conflict Set, in which the next
\* collapseStep collapses a cell.
ConflictsInertWitness ==
    /\ ~collapsed
    /\ Len(conflicts) > 0
    /\ calls > 0
    /\ getLowestEntropy(grid, seed).kind = "cell"

\* The collapsed flag and the value of a cell.
Fixed(g, c) == <<cellAt(g, c).collapsed, cellAt(g, c).value>>

\* C24: a propagate call changes no cell's collapsed flag or value, and a
\* collapseCell or collapseStep call changes them only for the cell it was
\* given and only when collapseCell accepted it; so an uncollapsed cell with a
\* one-tile domain stays uncollapsed until a call selects it.
OnlyCollapseCellCollapses ==
    [][/\ last'.op = "propagate" =>
            \A c \in Cells : Fixed(grid', c) = Fixed(grid, c)
       /\ last'.op \in {"collapseCell", "collapseStep"} =>
            \A c \in Cells :
                Fixed(grid', c) # Fixed(grid, c) =>
                    /\ last'.ok
                    /\ last'.lowest = [kind |-> "cell", x |-> c.x, y |-> c.y]
                    /\ ~cellAt(grid, c).collapsed
                    /\ cellAt(grid', c).collapsed]_vars

\* After a propagate call that narrowed a neighbour, an uncollapsed cell holds
\* a one-tile domain.
OnlyCollapseCellWitness ==
    /\ last.op = "propagate"
    /\ Len(last.changed) > 0
    /\ \E c \in Uncollapsed(grid) :
          /\ Len(cellAt(grid, c).possible) = 1
          /\ \E i \in 1..Len(last.changed) : last.changed[i] = c

\* The adjacent pairs of collapsed cells that the Constraint Table forbids: c
\* holds a tile t and its collapsed neighbour in direction d holds none of
\* constraints[t][d].
Clash(g) ==
    {p \in Cells \X Dirs :
        LET c == p[1]
            n == StepTo(p[1], p[2])
        IN  /\ n \in Cells
            /\ cellAt(g, c).collapsed
            /\ cellAt(g, n).collapsed
            /\ cellAt(g, c).value \in TileSet
            /\ ~includes(constraints[cellAt(g, c).value][p[2]], cellAt(g, n).value)}

\* The solver reached from the regenerated grid by n consecutive collapseStep
\* calls with seed sd.
runFromStart(sd, n) == runSteps(regenerate(Unbuilt), sd, n)

\* C25 as stated: some run of collapseStep calls reaches Complete with a
\* collapsed cell holding a tile that an adjacent collapsed cell's tile forbids.
InconsistentRunExists ==
    \E sd \in Seeds : \E n \in 0..(Rows * Cols + 1) :
        LET w == runFromStart(sd, n)
        IN  w.collapsed /\ Clash(w.grid) # {}

\* C25, amended: in a run of collapseStep calls from a regenerated grid no call
\* empties a domain, so no cell is reset, the Conflict Set stays empty and no
\* two adjacent collapsed cells hold tiles the Constraint Table forbids, in
\* Complete grids as in all others.
StepsNeverClash ==
    /\ last.emptied = <<>>
    /\ conflicts = <<>>
    /\ Clash(grid) = {}

\* A run has reached Complete with every cell collapsed, several tiles in use.
StepsNeverClashWitness ==
    /\ collapsed
    /\ Uncollapsed(grid) = {}
    /\ calls = Rows * Cols + 1
    /\ Cardinality({cellAt(grid, c).value : c \in Cells}) > 2

\* Where the reset policy does give inconsistent output: after cells placed by
\* direct collapseCell and propagate calls emptied a neighbour's domain, the
\* collapseStep calls that follow reach Complete with the reset cell (still in
\* the Conflict Set) holding a tile its collapsed neighbour forbids.
ResetClashReached ==
    /\ collapsed
    /\ Uncollapsed(grid) = {}
    /\ \E p \in Clash(grid) :
          \/ includes(conflicts, conflictKey(p[1].x, p[1].y))
          \/ includes(conflicts, conflictKey(StepTo(p[1], p[2]).x, StepTo(p[1], p[2]).y))

\* C26: every key of the Conflict Set names an uncollapsed cell, and no key is
\* in it twice.
ConflictsAreUncollapsed ==
    /\ NoDuplicates(conflicts)
    /\ \A c \in Cells :
          includes(conflicts, conflictKey(c.x, c.y)) => ~cellAt(grid, c).collapsed

\* C27: a collapseStep call made while some cell is uncollapsed collapses
\* exactly one cell: collapseCell accepts the selector's coordinate.
EveryStepProgresses ==
    [][(last'.op = "collapseStep" /\ ~collapsed /\ Uncollapsed(grid) # {}) =>
          /\ last'.ok
          /\ getStepCount(grid') = getStepCount(grid) + 1]_vars

\* Manhattan distance between two coordinates.
Distance(c, d) ==
    (IF c.x > d.x THEN c.x - d.x ELSE d.x - c.x) + (IF c.y > d.y THEN c.y - d.y ELSE d.y - c.y)

CollapsedAround(g, c) ==
    {d \in Dirs : StepTo(c, d) \in Cells /\ cellAt(g, StepTo(c, d)).collapsed}

\* The catalog tiles that every collapsed neighbour of c allows at c: the
\* neighbour in direction d sees c in direction opposite(d).
Allowed(g, c) ==
    {t \in TileSet :
        \A d \in CollapsedAround(g, c) :
            includes(constraints[cellAt(g, StepTo(c, d)).value][opposite(d)], t)}

\* C29: while the Conflict Set has not been populated since the last
\* regenerate, every uncollapsed cell's domain is exactly the set of tiles all
\* its collapsed neighbours allow, and no two adjacent collapsed cells hold
\* tiles the Constraint Table forbids; so a Complete grid is consistent.
ConsistentWithoutReset ==
    conflicts = <<>> =>
        /\ \A c \in Uncollapsed(grid) :
              Members(cellAt(grid, c).possible) = Allowed(grid, c)
        /\ \A p \in Cells \X Dirs :
              (/\ cellAt(grid, p[1]).collapsed
               /\ p[2] \in CollapsedAround(grid, p[1])) =>
                 includes(constraints[cellAt(grid, p[1]).value][p[2]],
                          cellAt(grid, StepTo(p[1], p[2])).value)

\* A run in progress without a reset: an uncollapsed cell with two or more
\* collapsed neighbours holds fewer tiles than either neighbour alone allows.
ConsistentWithoutResetWitness ==
    /\ conflicts = <<>>
    /\ ~collapsed
    /\ last.op = "collapseStep"
    /\ \E c \in Uncollapsed(grid) :
          /\ Cardinality(CollapsedAround(grid, c)) >= 2
          /\ \A d \in CollapsedAround(grid, c) :
                Len(cellAt(grid, c).possible) <
                  Len(constraints[cellAt(grid, StepTo(c, d)).value][opposite(d)])

\* C30: for the seed the framework holds and the collapsed count k of the
\* grid, the index drawn by getLowestEntropy for a candidate list of any length
\* n >= 1, and the index drawn by collapseCell at any cell for a domain of any
\* length n >= 1, lies in 0..n-1.
DrawInRange ==
    LET k == getStepCount(grid)
    IN  /\ \A n \in 1..(Rows * Cols) :
              drawIndex(selectorKey(seed, k), n) \in 0..(n - 1)
        /\ \A c \in Cells : \A n \in 1..Len(tiles) :
              drawIndex(collapseKey(seed, c.x, c.y, k), n) \in 0..(n - 1)

\* C31: whenever the solver is not Complete and the framework is not paused,
\* an animation frame is scheduled.
FrameStaysScheduled ==
    (~collapsed /\ ~isPaused) => scheduled

\* C32: in every reachable state the grid is the one obtained by regenerating
\* and making k collapseStep calls with the framework's current seed, k being
\* the number of collapsed cells.
SeedMatchesGrid ==
    grid = runFromStart(seed, getStepCount(grid)).grid

\* A partially solved grid under a seed that only a seed change can have set
\* (the constructor draws a seed >= 0).
SeedMatchesGridWitness ==
    /\ seed < 0
    /\ getStepCount(grid) >= 3
    /\ ~collapsed
    /\ frames > 0
    /\ frames < calls

\* C33: between calls, entropy[y][x] is 0 for every collapsed cell and the
\* domain size for every uncollapsed cell.
EntropyMirror ==
    \A c \in Cells :
        cellAt(entropy, c) = IF cellAt(grid, c).collapsed
                             THEN 0
                             ELSE Len(cellAt(grid, c).possible)

\* A collapseStep has collapsed a cell and narrowed neighbours, and the grid
\* holds collapsed cells, narrowed cells and untouched cells at once.
EntropyMirrorWitness ==
    /\ last.op = "collapseStep"
    /\ last.ok
    /\ Len(last.changed) > 0
    /\ \E c \in Uncollapsed(grid) : cellAt(entropy, c) = Len(tiles)
    /\ \E c \in Uncollapsed(grid) : cellAt(entropy, c) \in 1..(Len(tiles) - 1)
    /\ \E c \in Cells : cellAt(entropy, c) = 0

\* C34: a collapsed cell keeps its value, domain and collapsed flag through
\* every call; only the regenerate of a seed change or a reset replaces it.
CollapsedIsFinal ==
    [][\A c \in Cells :
          (cellAt(grid, c).collapsed /\ cellAt(grid', c) # cellAt(grid, c)) =>
              last'.op \in {"setSeed", "reset"}]_vars

\* A collapseStep collapsed a cell next to an already collapsed one whose
\* tile it does not match: propagate visited that neighbour and skipped it.
CollapsedIsFinalWitness ==
    /\ last.op = "collapseStep"
    /\ last.ok
    /\ \E p \in Clash(grid) : p[1] = [x |-> last.lowest.x, y |-> last.lowest.y]

\* The cells with four in-grid neighbours.
Interior == {c \in Cells : \A d \in Dirs : StepTo(c, d) \in Cells}

\* C35: a call empties (and resets) the domain of a cell only if the cell has
\* four in-grid neighbours and all four are collapsed after the call; no cell on
\* the border of the grid is reset or put in the Conflict Set.
ContradictionNeedsFour ==
    [][/\ \A i \in 1..Len(last'.emptied) :
             LET e == last'.emptied[i]
             IN  /\ e \in Interior
                 /\ \A d \in Dirs : cellAt(grid', StepTo(e, d)).collapsed
       /\ \A c \in Cells \ Interior :
             ~includes(conflicts', conflictKey(c.x, c.y))]_vars

\* A call emptied the domain of an interior cell while an uncollapsed border
\* cell, with every in-grid neighbour collapsed, kept a non-empty narrowed
\* domain.
ContradictionNeedsFourWitness ==
    /\ Len(last.emptied) > 0
    /\ \E c \in Uncollapsed(grid) \ Interior :
          /\ \A d \in Dirs : StepTo(c, d) \in Cells => d \in CollapsedAround(grid, c)
          /\ Len(cellAt(grid, c).possible) \in 1..(Len(tiles) - 1)

====
